---- MODULE Spec2Model ----
(***************************************************************************)
(* Face_AI: face verification service (face_attendance_ai).                *)
(*                                                                         *)
(* The model covers the HTTP handlers of main.py (/api/verify,             *)
(* /api/register, /api/registered, /verify-face) and the scan of           *)
(* face_engine.verify_face.  Sync handlers run on FastAPI's thread pool,   *)
(* so two requests may interleave.  A step of a request is one access to   *)
(* what requests share (the gallery directory, the audit log) together     *)
(* with the calls after it that touch only the request's own capture       *)
(* (capture_face, basic_spoof_check, the temporary file).                  *)
(*                                                                         *)
(* Units: a distance d is kept as the integer d * 10^4, a confidence c     *)
(* (percent, one decimal) as the integer c * 10.                           *)
(*                                                                         *)
(* Strings the code transforms are sequences of one-character strings; a   *)
(* file name is [stem, ext], ext being the suffix from the last dot        *)
(* ("" when there is none, or when the name only starts with a dot).       *)
(*                                                                         *)
(* utils.py (capture_face, basic_spoof_check, log_verification) and        *)
(* constants.py are not part of the sources at hand: they are modelled     *)
(* from the specification's contract for them.  The slowapi rate limiter   *)
(* (decorators of the handlers) is not modelled.                           *)
(***************************************************************************)
EXTENDS Integers, Sequences, FiniteSets, TLC

(* ------------------------------ bounds ------------------------------- *)

\* Requests started in one behaviour.
MaxRequests == 2

\* Entries of the gallery directory before the first request.
MaxInitEntries == 1

\* Request slots: requests in flight at the same time.
Procs == {1, 2}

\* The slots that take verification and listing requests.  Such a request
\* changes nothing but the append-only audit log, so two of them in flight
\* together do nothing that one after the other does not; the second slot
\* takes enrollments only.
ReadSlots == {1}

(* ------------------------- optional values --------------------------- *)

\* Python's None and a present value.
None == <<>>
Some(x) == <<x>>

(* ------------------------------ inputs ------------------------------- *)

\* The name field of a RegisterRequest.
RawNames ==
    { <<>>, <<" ">>, <<" ", "a", " ">>,
      <<"a", " ", "b">>, <<"a", "/", "b">>, <<"a", "\\", "b">> }

\* Directory entries a gallery may hold before the first request.
InitFiles ==
    { [stem |-> <<".gitkeep">>, ext |-> ""],
      [stem |-> <<"a">>, ext |-> ".jpg"],
      [stem |-> <<"a">>, ext |-> ".png"],
      [stem |-> <<"a", "_", "b">>, ext |-> ".JPG"] }

(* ------------------------ constants.py --------------------------------*)

FACE_DISTANCE_THRESHOLD == 4000

SUPPORTED_IMAGE_FORMATS == {".jpg", ".jpeg", ".png"}

(* ------------------------- string helpers ---------------------------- *)

\* str.lower() on a file name's suffix.
Lower(ext) ==
    CASE ext = ".JPG" -> ".jpg"
      [] ext = ".JPEG" -> ".jpeg"
      [] ext = ".PNG" -> ".png"
      [] OTHER -> ext

\* person.lower().endswith(SUPPORTED_IMAGE_FORMATS)
IsImage(f) == Lower(f.ext) \in SUPPORTED_IMAGE_FORMATS

RECURSIVE LStrip(_)
LStrip(s) == IF s # <<>> /\ Head(s) = " " THEN LStrip(Tail(s)) ELSE s

RECURSIVE RStrip(_)
RStrip(s) ==
    IF s # <<>> /\ s[Len(s)] = " " THEN RStrip(SubSeq(s, 1, Len(s) - 1)) ELSE s

\* str.strip()
Strip(s) == RStrip(LStrip(s))

\* str.replace(old, new) for one-character old and new.
Replace(s, old, new) ==
    IF s = <<>> THEN <<>>
    ELSE [i \in 1..Len(s) |-> IF s[i] = old THEN new ELSE s[i]]

\* request.name.strip().replace(" ", "_").replace("/", "_").replace("\\", "_")
CleanName(raw) ==
    Replace(Replace(Replace(Strip(raw), " ", "_"), "/", "_"), "\\", "_")

\* f"images/registered/{clean_name}.jpg"
RegisteredPath(clean) == [stem |-> clean, ext |-> ".jpg"]

\* The normalized names the inputs can produce.
CleanNames == { CleanName(r) : r \in { x \in RawNames : Strip(x) # <<>> } }

(* ------------------------------ state -------------------------------- *)

VARIABLES
    galleryExists,  \* the directory images/registered exists
    gallery,        \* its entries in os.listdir order: [name, content]
    auditLog,       \* the records log_verification has appended
    req,            \* per slot: the request in it (see NewRequest)
    nStarted,       \* requests started so far
    writes,         \* per normalized name: copies made to its reference file
    successes,      \* per normalized name: register responses with success
    enrolledAs      \* per normalized name: the content of its first copy

vars ==
    << galleryExists, gallery, auditLog, req, nStarted, writes, successes,
       enrolledAs >>

fsVars == << galleryExists, gallery >>
enrolVars == << writes, successes, enrolledAs >>

\* A request that has just arrived at endpoint e.
NewRequest(e) ==
    [ pc |-> "start",     \* position in the handler; "idle", "done"
      ep |-> e,           \* verify, verify_face, register, list; none
      clean |-> <<>>,     \* register: clean_name
      img |-> 0,          \* register: content of the capture (a local)
                          \* 0: a file present from the start; n > 0: the
                          \* capture the n-th request took
      capture |-> "none", \* the request's capture file: none/exists/deleted
      spoof |-> "none",   \* basic_spoof_check's answer: none/pass/fail
      scan |-> None,      \* what verify_face was given and did
      result |-> None,    \* what verify_face returned
      logged |-> 0,       \* log_verification calls that returned
      gate |-> "none",    \* the gallery check: none/rejected/passed
      emptyAtCheck |-> FALSE, \* the gallery check ran with no image entry
      resp |-> None ]     \* the response, once the request has ended

Idle == [NewRequest("none") EXCEPT !.pc = "idle"]

(* --------------------------- file system ----------------------------- *)

Names(g) == { g[i].name : i \in 1..Len(g) }

\* os.path.exists(path) for a path directly under images/registered
PathExists(f) == galleryExists /\ f \in Names(gallery)

\* Sequences over S of length at most n without a repeated element.
DistinctSeqs(S, n) ==
    { s \in UNION { [1..k -> S] : k \in 0..n } :
        \A i, j \in 1..Len(s) : i # j => s[i] # s[j] }

\* At most one reference image per normalized name (the stem of an image
\* entry).
OneImagePerName(g) ==
    \A i, j \in 1..Len(g) :
        (i # j /\ IsImage(g[i].name) /\ IsImage(g[j].name))
            => g[i].name.stem # g[j].name.stem

InitGalleries ==
    { [i \in 1..Len(s) |-> [name |-> s[i], content |-> 0]] :
        s \in { t \in DistinctSeqs(InitFiles, MaxInitEntries) :
                  OneImagePerName([i \in 1..Len(t) |-> [name |-> t[i]]]) } }

\* The directory after path f is written with content c: an existing entry
\* keeps its place, a new one appears at position k of the listing.
WriteFile(g, f, c, k) ==
    IF f \in Names(g)
    THEN [i \in 1..Len(g) |->
            IF g[i].name = f THEN [name |-> f, content |-> c] ELSE g[i]]
    ELSE SubSeq(g, 1, k - 1) \o << [name |-> f, content |-> c] >>
         \o SubSeq(g, k, Len(g))

(* ------------------------- the Embedding Oracle ---------------------- *)

\* What DeepFace.verify does for one reference image: it raises, or returns
\* result["verified"] and result["distance"].
Raises == [raised |-> TRUE, verified |-> FALSE, distance |-> 0]

Returns(v, d) == [raised |-> FALSE, verified |-> v, distance |-> d]

Outcomes ==
    { Raises, Returns(TRUE, 2500), Returns(TRUE, 2512), Returns(TRUE, 3999),
      Returns(TRUE, 4000), Returns(FALSE, 2500) }

\* The oracle's answers for one capture against the entries of listing g.  An
\* entry that is no image file is not decodable: the oracle raises on it.
Oracles(g) ==
    { o \in [1..Len(g) -> Outcomes] :
        \A i \in 1..Len(g) : ~IsImage(g[i].name) => o[i] = Raises }

(* ------------------------ face_engine.verify_face -------------------- *)

NoMatch == [verified |-> FALSE, matched_with |-> None, score |-> None]

\* Line 21: the decision rule on one oracle answer.
Accepts(out) ==
    /\ ~out.raised
    /\ out.verified
    /\ out.distance < FACE_DISTANCE_THRESHOLD

\* A scan that goes through every entry and keeps the closest accepted one.
RECURSIVE ScanFromBest(_, _, _)
ScanFromBest(g, o, i) ==
    IF i > Len(g)
    THEN [result |-> NoMatch, calls |-> {}]
    ELSE LET rest == ScanFromBest(g, o, i + 1)
         IN  IF ~IsImage(g[i].name)
             THEN rest
             ELSE IF Accepts(o[i])
                     /\ (rest.result.verified
                           => o[i].distance <= rest.result.score[1])
             THEN [ result |-> [ verified |-> TRUE,
                                 matched_with |-> Some(g[i].name),
                                 score |-> Some(o[i].distance) ],
                    calls |-> rest.calls \cup {i} ]
             ELSE [result |-> rest.result, calls |-> rest.calls \cup {i}]

\* A scan in which an exception of DeepFace.verify ends the loop: the try
\* statement around the loop instead of inside it.
RECURSIVE ScanFromAborting(_, _, _)
ScanFromAborting(g, o, i) ==
    IF i > Len(g)
    THEN [result |-> NoMatch, calls |-> {}]
    ELSE IF ~IsImage(g[i].name)
    THEN ScanFromAborting(g, o, i + 1)
    ELSE IF o[i].raised
    THEN [result |-> NoMatch, calls |-> {i}]
    ELSE IF Accepts(o[i])
    THEN [ result |-> [ verified |-> TRUE,
                        matched_with |-> Some(g[i].name),
                        score |-> Some(o[i].distance) ],
           calls |-> {i} ]
    ELSE LET rest == ScanFromAborting(g, o, i + 1)
         IN  [result |-> rest.result, calls |-> rest.calls \cup {i}]

\* The for loop of verify_face from entry i on: the value returned and the
\* entries DeepFace.verify was called on.
RECURSIVE ScanFrom(_, _, _)
ScanFrom(g, o, i) ==
    IF i > Len(g)
    THEN [result |-> NoMatch, calls |-> {}]
    ELSE IF ~IsImage(g[i].name)
    THEN ScanFrom(g, o, i + 1)
    ELSE IF Accepts(o[i])
    THEN [ result |-> [ verified |-> TRUE,
                        matched_with |-> Some(g[i].name),
                        score |-> Some(o[i].distance) ],
           calls |-> {i} ]
    ELSE LET rest == ScanFrom(g, o, i + 1)
         IN  [result |-> rest.result, calls |-> rest.calls \cup {i}]

verify_face(g, o) == ScanFrom(g, o, 1)

(* ----------------------------- responses ----------------------------- *)

HttpError(code, detail) == [code |-> code, detail |-> detail]

Ok(body) == [code |-> 200, body |-> body]

\* main.py line 60: the body returned when the spoof gate rejects.
SpoofRejectedBody ==
    [verified |-> FALSE, matched_with |-> None, score |-> Some(0)]

\* main.py line 77 through response_model=FaceVerifyResponse, which keeps
\* verified, matched_with and score and drops the "error" key.
InternalErrorBody ==
    [verified |-> FALSE, matched_with |-> None, score |-> Some(0)]

\* main.py lines 165 and 187-190.
ClientNoMatch == [match |-> FALSE, confidence |-> 0]

Min(a, b) == IF a < b THEN a ELSE b
Max(a, b) == IF a > b THEN a ELSE b

\* The distance itself taken for the confidence.
ConfidenceOfDistance(score) == Max(0, Min(10000, score))

\* A confidence relative to the threshold: 100 at distance 0, 0 at the
\* threshold.
ConfidenceWithinThreshold(score) ==
    Max(0, Min(10000, 10000 - (score * 10000) \div FACE_DISTANCE_THRESHOLD))

\* main.py line 174: max(0.0, min(100.0, (1 - score) * 100)), in 1/100 percent.
Confidence(score) == Max(0, Min(10000, 10000 - score))

\* round(confidence, 1): from 1/100 percent to 1/10 percent, half to even.
Round1(x) ==
    LET q == x \div 10
        r == x % 10
    IN  IF r < 5 THEN q
        ELSE IF r > 5 THEN q + 1
        ELSE IF q % 2 = 0 THEN q ELSE q + 1

Init ==
    /\ galleryExists \in BOOLEAN
    /\ gallery \in (IF galleryExists THEN InitGalleries ELSE { <<>> })
    /\ auditLog = <<>>
    /\ req = [p \in Procs |-> Idle]
    /\ nStarted = 0
    /\ writes = [n \in CleanNames |-> 0]
    /\ successes = [n \in CleanNames |-> 0]
    /\ enrolledAs = [n \in CleanNames |-> None]

(* ------------------------- request life cycle ------------------------ *)

InFlight(p) == req[p].pc \notin {"idle", "done"}

\* A request may arrive in slot p: the slot is free (never used, or its last
\* response has been sent).  Slots are interchangeable, so the second is
\* used only while the first is busy.
CanStart(p) ==
    /\ ~InFlight(p)
    /\ nStarted < MaxRequests
    /\ \A q \in Procs : q < p => InFlight(q)

\* Request r ends with response x; its locals go out of scope.
Respond(r, x) ==
    [r EXCEPT !.pc = "done", !.resp = Some(x), !.img = 0, !.scan = None]

(* --------------------------- /api/register --------------------------- *)

\* A handler that goes on to the copy whatever the spoof gate said.
RegisterCapturedUngated(r) ==
    { Respond(r, HttpError(500, "Registration failed due to internal error")) }
    \cup
    { [r EXCEPT !.capture = "exists", !.spoof = sp, !.img = nStarted + 1,
                !.pc = "r_copy"] : sp \in {"fail", "pass"} }

\* capture_face() and basic_spoof_check() as register_face uses them (lines
\* 95-100): the capture raises (caught at line 114), or leaves a capture
\* file that the spoof gate rejects or lets pass.
RegisterCaptured(r) ==
    { Respond(r, HttpError(500, "Registration failed due to internal error")) }
    \cup
    { Respond([r EXCEPT !.capture = "exists", !.spoof = "fail"],
              HttpError(400, "Face capture failed spoof detection")) }
    \cup
    { [r EXCEPT !.capture = "exists", !.spoof = "pass", !.img = nStarted + 1,
                !.pc = "r_copy"] }

\* A handler without the duplicate check of lines 90-92.
RegisterStartUnchecked(p) ==
    /\ CanStart(p)
    /\ \E raw \in RawNames :
         LET r == NewRequest("register")
             clean == CleanName(raw)
         IN  IF raw = <<>> \/ Len(Strip(raw)) = 0
             THEN req' = [req EXCEPT ![p] =
                            Respond(r, HttpError(400, "Name cannot be empty"))]
             ELSE \E next \in RegisterCaptured([r EXCEPT !.clean = clean]) :
                    req' = [req EXCEPT ![p] = next]
    /\ nStarted' = nStarted + 1
    /\ UNCHANGED << fsVars, auditLog, enrolVars >>

\* register_face, lines 84-100: the name check, the duplicate check, the
\* capture and the spoof gate.  The two last act on nothing shared.
RegisterStart(p) ==
    /\ CanStart(p)
    /\ \E raw \in RawNames :
         LET r == NewRequest("register")
             clean == CleanName(raw)
         IN  IF raw = <<>> \/ Len(Strip(raw)) = 0
             THEN req' = [req EXCEPT ![p] =
                            Respond(r, HttpError(400, "Name cannot be empty"))]
             ELSE IF PathExists(RegisteredPath(clean))
             THEN req' = [req EXCEPT ![p] =
                            Respond([r EXCEPT !.clean = clean],
                                    HttpError(400, "Face already registered"))]
             ELSE \E next \in RegisterCaptured([r EXCEPT !.clean = clean]) :
                    req' = [req EXCEPT ![p] = next]
    /\ nStarted' = nStarted + 1
    /\ UNCHANGED << fsVars, auditLog, enrolVars >>

\* register_face, lines 103-110: shutil.copy2 creates or overwrites the
\* reference file (FileNotFoundError without the directory, caught at line
\* 114), then the success response.
RegisterCopy(p) ==
    /\ req[p].pc = "r_copy"
    /\ LET clean == req[p].clean
           path == RegisteredPath(clean)
       IN  IF ~galleryExists
           THEN /\ req' = [req EXCEPT ![p] =
                     Respond(@, HttpError(500, "Registration failed due to internal error"))]
                /\ UNCHANGED << gallery, enrolVars >>
           ELSE /\ \E k \in 1..(Len(gallery) + 1) :
                     gallery' = WriteFile(gallery, path, req[p].img, k)
                /\ writes' = [writes EXCEPT ![clean] = @ + 1]
                /\ successes' = [successes EXCEPT ![clean] = @ + 1]
                /\ enrolledAs' =
                     [enrolledAs EXCEPT
                        ![clean] = IF @ = None THEN Some(req[p].img) ELSE @]
                /\ req' = [req EXCEPT ![p] = Respond(@, Ok([success |-> TRUE]))]
    /\ UNCHANGED << galleryExists, auditLog, nStarted >>

(* ---------------------------- /api/verify ---------------------------- *)

\* Line 50: not os.path.exists(REGISTERED_FACES_DIR) or not
\* os.listdir(REGISTERED_FACES_DIR)
GalleryMissingOrEmpty == ~galleryExists \/ gallery = <<>>

\* No enrolled identity: no directory, or no image entry in it.
NoImageEntry ==
    ~galleryExists \/ \A i \in 1..Len(gallery) : ~IsImage(gallery[i].name)

\* A handler that goes on to verify_face whatever the spoof gate said.
VerifyCapturedUngated(r) ==
    { Respond(r, HttpError(500, "Required files or directories not found")),
      Respond(r, Ok([verified |-> FALSE, matched_with |-> None,
                     score |-> Some(0)])),
      [r EXCEPT !.capture = "exists", !.spoof = "fail", !.pc = "v_scan"],
      [r EXCEPT !.capture = "exists", !.spoof = "pass", !.pc = "v_scan"] }

\* capture_face() and basic_spoof_check() as verify uses them (lines 55-60):
\* the capture raises FileNotFoundError (line 72) or something else (line
\* 75), or leaves a capture file that the spoof gate rejects or lets pass.
VerifyCaptured(r) ==
    { Respond(r, HttpError(500, "Required files or directories not found")),
      Respond(r, Ok(InternalErrorBody)),
      Respond([r EXCEPT !.capture = "exists", !.spoof = "fail"],
              Ok(SpoofRejectedBody)),
      [r EXCEPT !.capture = "exists", !.spoof = "pass", !.pc = "v_scan"] }

\* verify, lines 50-60: the gallery check, the capture and the spoof gate.
VerifyStart(p) ==
    /\ CanStart(p)
    /\ LET r == [NewRequest("verify") EXCEPT !.emptyAtCheck = NoImageEntry]
       IN  IF GalleryMissingOrEmpty
           THEN req' = [req EXCEPT ![p] =
                          Respond([r EXCEPT !.gate = "rejected"],
                                  HttpError(400, "No registered faces found"))]
           ELSE \E next \in VerifyCaptured([r EXCEPT !.gate = "passed"]) :
                  req' = [req EXCEPT ![p] = next]
    /\ nStarted' = nStarted + 1
    /\ UNCHANGED << fsVars, auditLog, enrolVars >>

\* Request r after verify_face(path) ran on listing g with oracle answers o.
Scanned(r, g, o, nextPc) ==
    [r EXCEPT !.pc = nextPc,
              !.scan = Some([ entries |-> [i \in 1..Len(g) |-> g[i].name],
                              oracle |-> o,
                              calls |-> verify_face(g, o).calls ]),
              !.result = Some(verify_face(g, o).result)]

\* A verify_face that writes the audit record itself.
VerifyScanLogging(p) ==
    /\ req[p].pc = "v_scan"
    /\ \E o \in Oracles(gallery) :
         /\ req' = [req EXCEPT ![p] = Scanned(@, gallery, o, "v_log")]
         /\ auditLog' =
              Append(auditLog,
                     [ identity |-> verify_face(gallery, o).result.matched_with,
                       verified |-> verify_face(gallery, o).result.verified,
                       distance |-> verify_face(gallery, o).result.score ])
    /\ UNCHANGED << fsVars, nStarted, enrolVars >>

\* verify, line 63: verify_face(path).
VerifyScan(p) ==
    /\ req[p].pc = "v_scan"
    /\ \E o \in Oracles(gallery) :
         req' = [req EXCEPT ![p] = Scanned(@, gallery, o, "v_log")]
    /\ UNCHANGED << fsVars, auditLog, nStarted, enrolVars >>

\* What log_verification(identity, verified, distance) appends.
AuditRecord(identity, verified, distance) ==
    [identity |-> identity, verified |-> verified, distance |-> distance]

\* verify, lines 65-77: log_verification appends the record and the result is
\* returned, or it raises FileNotFoundError (line 72) or something else
\* (line 75).
VerifyLog(p) ==
    /\ req[p].pc = "v_log"
    /\ LET res == req[p].result[1]
       IN  \/ /\ auditLog' = Append(auditLog,
                    AuditRecord(res.matched_with, res.verified, res.score))
              /\ req' = [req EXCEPT ![p] =
                           Respond([@ EXCEPT !.logged = @ + 1], Ok(res))]
           \/ /\ req' = [req EXCEPT ![p] =
                    Respond(@, HttpError(500, "Required files or directories not found"))]
              /\ UNCHANGED auditLog
           \/ /\ req' = [req EXCEPT ![p] = Respond(@, Ok(InternalErrorBody))]
              /\ UNCHANGED auditLog
    /\ UNCHANGED << fsVars, nStarted, enrolVars >>

(* ---------------------------- /verify-face --------------------------- *)

\* file.content_type of the upload: an image type, another type, or None.
ContentTypes == {"image", "other", "missing"}

\* verify_face_from_photo, lines 155-165, and the finally clause of line 192
\* for the return of line 165: the temporary file is created; reading the
\* upload or writing it raises (caught at line 199, the file stays), or the
\* spoof gate rejects (the file is unlinked) or lets pass.
FaceCaptured(r) ==
    { Respond([r EXCEPT !.capture = "exists"],
              HttpError(500, "Face verification failed")),
      Respond([r EXCEPT !.capture = "deleted", !.spoof = "fail"],
              Ok(ClientNoMatch)),
      [r EXCEPT !.capture = "exists", !.spoof = "pass", !.pc = "f_scan"] }

\* verify_face_from_photo, lines 146-165: the content type check (None has no
\* startswith: AttributeError, caught at line 199), the gallery check, the
\* temporary file and the spoof gate.
FaceStart(p) ==
    /\ CanStart(p)
    /\ \E ct \in ContentTypes :
         LET new == NewRequest("verify_face")
             r == [new EXCEPT !.emptyAtCheck = NoImageEntry]
         IN  IF ct = "missing"
             THEN req' = [req EXCEPT ![p] =
                            Respond(new, HttpError(500, "Face verification failed"))]
             ELSE IF ct # "image"
             THEN req' = [req EXCEPT ![p] =
                            Respond(new, HttpError(400, "File must be an image"))]
             ELSE IF GalleryMissingOrEmpty
             THEN req' = [req EXCEPT ![p] =
                            Respond([r EXCEPT !.gate = "rejected"],
                                    HttpError(400, "No registered employees found in system"))]
             ELSE \E next \in FaceCaptured([r EXCEPT !.gate = "passed"]) :
                    req' = [req EXCEPT ![p] = next]
    /\ nStarted' = nStarted + 1
    /\ UNCHANGED << fsVars, auditLog, enrolVars >>

\* verify_face_from_photo, line 169: verify_face(temp_path).
FaceScan(p) ==
    /\ req[p].pc = "f_scan"
    /\ \E o \in Oracles(gallery) :
         req' = [req EXCEPT ![p] = Scanned(@, gallery, o, "f_log")]
    /\ UNCHANGED << fsVars, auditLog, nStarted, enrolVars >>

\* Lines 172-190: the result in the client's format.
ClientBody(res) ==
    IF res.verified
    THEN [match |-> TRUE, confidence |-> Round1(Confidence(res.score[1]))]
    ELSE ClientNoMatch

\* Lines 178 and 186: the record the upload endpoint logs.
ClientRecord(res) ==
    IF res.verified
    THEN AuditRecord(res.matched_with, TRUE, res.score)
    ELSE AuditRecord(None, FALSE, None)

\* verify_face_from_photo, lines 172-201: log_verification appends the record
\* and the client body is returned, or it raises (caught at line 199); the
\* finally clause unlinks the temporary file either way.
FaceLog(p) ==
    /\ req[p].pc = "f_log"
    /\ LET res == req[p].result[1]
       IN  \/ /\ auditLog' = Append(auditLog, ClientRecord(res))
              /\ req' = [req EXCEPT ![p] =
                           Respond([@ EXCEPT !.logged = @ + 1,
                                             !.capture = "deleted"],
                                   Ok(ClientBody(res)))]
           \/ /\ req' = [req EXCEPT ![p] =
                           Respond([@ EXCEPT !.capture = "deleted"],
                                   HttpError(500, "Face verification failed"))]
              /\ UNCHANGED auditLog
    /\ UNCHANGED << fsVars, nStarted, enrolVars >>

(* --------------------------- /api/registered ------------------------- *)

\* Lines 125-132: the faces listed for listing g, from entry i on.
RECURSIVE FacesFrom(_, _)
FacesFrom(g, i) ==
    IF i > Len(g) THEN <<>>
    ELSE IF Lower(g[i].name.ext) \in {".jpg", ".jpeg", ".png"}
    THEN << [ name |-> Replace(g[i].name.stem, "_", " "),
              filename |-> g[i].name ] >> \o FacesFrom(g, i + 1)
    ELSE FacesFrom(g, i + 1)

\* list_registered_faces, lines 122-134.
ListFaces(p) ==
    /\ CanStart(p)
    /\ LET r == NewRequest("list")
           faces == FacesFrom(gallery, 1)
       IN  req' = [req EXCEPT ![p] =
              IF ~galleryExists
              THEN Respond(r, Ok([registered_faces |-> <<>>, count |-> None]))
              ELSE Respond(r, Ok([ registered_faces |-> faces,
                                   count |-> Some(Len(faces)) ]))]
    /\ nStarted' = nStarted + 1
    /\ UNCHANGED << fsVars, auditLog, enrolVars >>

Next ==
    \/ \E p \in Procs :
        \/ RegisterStart(p)
        \/ RegisterCopy(p)
    \/ \E p \in ReadSlots :
        \/ VerifyStart(p)
        \/ VerifyScan(p)
        \/ VerifyLog(p)
        \/ FaceStart(p)
        \/ FaceScan(p)
        \/ FaceLog(p)
        \/ ListFaces(p)

Spec == Init /\ [][Next]_vars

\* The same requests, one after the other: a single slot, so none arrives
\* while another is being handled.
SeqNext ==
    \E p \in {1} :
        \/ RegisterStart(p)
        \/ RegisterCopy(p)
        \/ VerifyStart(p)
        \/ VerifyScan(p)
        \/ VerifyLog(p)
        \/ FaceStart(p)
        \/ FaceScan(p)
        \/ FaceLog(p)
        \/ ListFaces(p)

SeqSpec == Init /\ [][SeqNext]_vars


(* ============================== claims =============================== *)

Done(p) == req[p].pc = "done"

Verifying(p) == req[p].ep \in {"verify", "verify_face"}

\* The entries of a scan whose oracle answer is verified with a distance
\* below the threshold, among the image entries.
Hits(s) ==
    { i \in 1..Len(s.entries) :
        /\ s.entries[i].ext \in {".jpg", ".jpeg", ".png", ".JPG", ".JPEG", ".PNG"}
        /\ ~s.oracle[i].raised
        /\ s.oracle[i].verified
        /\ s.oracle[i].distance < 4000 }

FirstOf(S) == CHOOSE i \in S : \A j \in S : i <= j

\* C1: first match wins.  Whenever verify_face has run on a listing in which
\* some image entry has an oracle answer with verified = true and a distance
\* below the threshold, it returned verified = true, matched_with the first
\* such entry of the listing and score that entry's distance, whatever the
\* later entries' distances.
C1_FirstMatchWins ==
    \A p \in Procs :
        req[p].scan # None =>
            LET s == req[p].scan[1]
                res == req[p].result[1]
            IN  Hits(s) # {} =>
                    /\ res.verified
                    /\ res.matched_with = Some(s.entries[FirstOf(Hits(s))])
                    /\ res.score = Some(s.oracle[FirstOf(Hits(s))].distance)

\* C1's case: a scan in which a later entry is closer than the first hit, and
\* the first hit was returned.
C1_Witness ==
    \E p \in Procs :
        /\ req[p].scan # None
        /\ LET s == req[p].scan[1]
           IN  /\ Hits(s) # {}
               /\ \E j \in Hits(s) :
                    /\ j > FirstOf(Hits(s))
                    /\ s.oracle[j].distance < s.oracle[FirstOf(Hits(s))].distance
               /\ req[p].result[1].matched_with
                    = Some(s.entries[FirstOf(Hits(s))])

\* C2: a verification request whose gallery check ran on a gallery with no
\* enrolled identity (no directory, no entry, or no image entry) ends with
\* HTTP 400, never with a verified = false or match = false result.
C2_EmptyGalleryRejected ==
    \A p \in Procs :
        (Done(p) /\ Verifying(p) /\ req[p].emptyAtCheck)
            => req[p].resp[1].code = 400

\* C3: a request whose capture failed the spoof gate never calls verify_face
\* (so never the oracle), and verify_face is called only for a request whose
\* capture has passed the gate.
C3_SpoofGateShortCircuits ==
    \A p \in Procs :
        /\ req[p].spoof = "fail"
             => (req[p].scan = None /\ req[p].result = None
                 /\ req[p].pc \notin {"v_scan", "f_scan"})
        /\ (req[p].scan # None \/ req[p].result # None
            \/ req[p].pc \in {"v_scan", "f_scan"})
             => req[p].spoof = "pass"

\* C3's case: /api/verify answered a spoof rejection while the gallery held an
\* image the oracle could have been asked about.
C3_Witness ==
    \E p \in Procs :
        /\ Done(p)
        /\ req[p].ep = "verify"
        /\ req[p].spoof = "fail"
        /\ ~req[p].emptyAtCheck
        /\ req[p].resp[1].code = 200
        /\ ~req[p].resp[1].body.verified

\* C4: with requests handled one after the other, every normalized name is
\* enrolled with success at most once; once it is, its reference file holds
\* the content of that enrollment, and any other finished enrollment of the
\* name has got HTTP 400 "already registered".
C4_EnrollTwiceRejects ==
    \A n \in CleanNames :
        /\ successes[n] <= 1
        /\ successes[n] = 1 =>
             /\ \E i \in 1..Len(gallery) :
                  /\ gallery[i].name = [stem |-> n, ext |-> ".jpg"]
                  /\ Some(gallery[i].content) = enrolledAs[n]
             /\ \A p \in Procs :
                  (Done(p) /\ req[p].ep = "register" /\ req[p].clean = n
                   /\ req[p].resp[1].code # 200)
                    => req[p].resp[1] = HttpError(400, "Face already registered")

\* C4's case: a name enrolled in this run, then a second enrollment of it that
\* was rejected as a duplicate.
C4_Witness ==
    \E p \in Procs, n \in CleanNames :
        /\ successes[n] = 1
        /\ Done(p)
        /\ req[p].ep = "register"
        /\ req[p].clean = n
        /\ req[p].resp[1] = HttpError(400, "Face already registered")

\* C5: under every interleaving of enrollments, at most one enrollment of a
\* normalized name reports success and its reference file is written at most
\* once.
C5_EnrollmentAtomic ==
    \A n \in CleanNames : successes[n] <= 1 /\ writes[n] <= 1

\* C6: every verification request that got past the gallery check has
\* appended exactly one audit record by the time it responds.
C6_OneAuditRecordPerAttempt ==
    \A p \in Procs :
        (Done(p) /\ Verifying(p) /\ req[p].gate = "passed")
            => req[p].logged = 1

\* matched_with and score are present if and only if verified is true.
FieldsIffVerified(b) ==
    /\ b.verified => (b.matched_with # None /\ b.score # None)
    /\ ~b.verified => (b.matched_with = None /\ b.score = None)

\* C7: in every result verify_face returned and in every body /api/verify
\* responded with, matched_with and score are present if and only if verified
\* is true.
C7_ResultFieldsIffVerified ==
    \A p \in Procs :
        /\ req[p].result # None => FieldsIffVerified(req[p].result[1])
        /\ (Done(p) /\ req[p].ep = "verify" /\ req[p].resp[1].code = 200)
             => FieldsIffVerified(req[p].resp[1].body)

\* C8: once a verification request has responded, the capture file it
\* created no longer exists.
C8_CaptureDeleted ==
    \A p \in Procs :
        (Done(p) /\ Verifying(p)) => req[p].capture # "exists"

\* The confidence c (1/10 percent) is clamp(0, 100, (1 - d) * 100) for the
\* distance d (1/10000), rounded to one decimal.
IsConfidenceOf(c, d) ==
    LET exact == IF d >= 10000 THEN 0 ELSE 10000 - d
    IN  /\ c \in 0..1000
        /\ 10 * c - exact \in -5..5

\* C9: a /verify-face response to a match carries match = true and
\* confidence = clamp(0, 100, (1 - distance) * 100) rounded to one decimal
\* (distance 0.25 gives 75.0); a response to no match or to a spoof rejection
\* is {match: false, confidence: 0.0}.  The mapping gives 100.0 for distance
\* 0.0 and 0.0 for distances 1.0 and above.
C9_ConfidenceMapping ==
    /\ \A p \in Procs :
        (Done(p) /\ req[p].ep = "verify_face" /\ req[p].resp[1].code = 200)
            => LET b == req[p].resp[1].body
               IN  IF req[p].result # None /\ req[p].result[1].verified
                   THEN /\ b.match
                        /\ IsConfidenceOf(b.confidence, req[p].result[1].score[1])
                        /\ req[p].result[1].score[1] = 2500
                             => b.confidence = 750
                   ELSE b = [match |-> FALSE, confidence |-> 0]
    /\ Round1(Confidence(0)) = 1000
    /\ Round1(Confidence(10000)) = 0
    /\ Round1(Confidence(12000)) = 0

\* C9's case: a match at distance 0.2512 answered with confidence 74.9.
C9_Witness ==
    \E p \in Procs :
        /\ Done(p)
        /\ req[p].ep = "verify_face"
        /\ req[p].result # None
        /\ req[p].result[1].score = Some(2512)
        /\ req[p].resp[1] = Ok([match |-> TRUE, confidence |-> 749])

\* C10: the gallery never holds two reference images (entries with an allowed
\* extension) for one normalized name.
C10_OneReferencePerName ==
    \A i, j \in 1..Len(gallery) :
        ( /\ i # j
          /\ Lower(gallery[i].name.ext) \in {".jpg", ".jpeg", ".png"}
          /\ Lower(gallery[j].name.ext) \in {".jpg", ".jpeg", ".png"} )
            => gallery[i].name.stem # gallery[j].name.stem

\* What a caller of endpoint ep sees when the capture passed the spoof gate,
\* verify_face matched no identity and the attempt was logged.
NoMatchResponse(ep) ==
    IF ep = "verify"
    THEN [ code |-> 200,
           body |-> [verified |-> FALSE, matched_with |-> <<>>, score |-> <<>>] ]
    ELSE [code |-> 200, body |-> [match |-> FALSE, confidence |-> 0]]

\* C11: on both verification endpoints a capture that passed the gate and
\* matched no identity is answered with the endpoint's no-match response, and
\* the response to a capture that failed the spoof gate differs from that
\* response.
C11_SpoofDistinctFromNoMatch ==
    \A p \in Procs :
        (Done(p) /\ Verifying(p)) =>
            /\ (req[p].result = Some(NoMatch) /\ req[p].logged = 1)
                 => req[p].resp[1] = NoMatchResponse(req[p].ep)
            /\ req[p].spoof = "fail"
                 => req[p].resp[1] # NoMatchResponse(req[p].ep)

\* The image entries of scan s on which the oracle raised.
Failing(s) ==
    { i \in 1..Len(s.entries) : IsImage(s.entries[i]) /\ s.oracle[i].raised }

\* Sequence q from position i on, without the positions in X.
RECURSIVE Without(_, _, _)
Without(q, X, i) ==
    IF i > Len(q) THEN <<>>
    ELSE (IF i \in X THEN <<>> ELSE << q[i] >>) \o Without(q, X, i + 1)

\* C12: an oracle exception on a gallery entry is absorbed.  Whenever
\* verify_face has run, it has returned a result (no exception), it has gone
\* on past every failing entry that precedes the entry it stopped at, and
\* its result is the result of verify_face on the same listing with the
\* failing entries removed.
C12_ScanToleratesOracleErrors ==
    \A p \in Procs :
        req[p].scan # None =>
            LET s == req[p].scan[1]
                kept == Without([i \in 1..Len(s.entries) |->
                                    [name |-> s.entries[i], content |-> 0]],
                                Failing(s), 1)
                answers == Without(s.oracle, Failing(s), 1)
            IN  /\ req[p].result # None
                /\ req[p].result[1] = verify_face(kept, answers).result
                /\ \A i \in Failing(s) :
                     (\E j \in s.calls : j > i) => i \in s.calls

\* C12's case: the oracle raised on an image entry and a later entry of the
\* listing was returned as the match.
C12_Witness ==
    \E p \in Procs :
        /\ req[p].scan # None
        /\ LET s == req[p].scan[1]
           IN  \E i \in Failing(s), j \in 1..Len(s.entries) :
                 /\ i < j
                 /\ i \in s.calls
                 /\ req[p].result[1].verified
                 /\ req[p].result[1].matched_with = Some(s.entries[j])

\* The response of endpoint ep for verify_face's result res when the audit
\* write succeeds.
LoggedResponse(ep, res) ==
    IF ep = "verify" THEN Ok(res) ELSE Ok(ClientBody(res))

\* C13: audit logging is best-effort.  A verification request for which
\* verify_face returned a result ends with the response for that result,
\* whether log_verification returned or raised.
C13_LoggingBestEffort ==
    \A p \in Procs :
        (Done(p) /\ Verifying(p) /\ req[p].result # None)
            => req[p].resp[1] = LoggedResponse(req[p].ep, req[p].result[1])

\* The request in slot p got past the gallery check and then met an
\* exception: its capture raised (no spoof answer was ever given), or
\* log_verification raised (a result without an audit record).
Failed(p) ==
    /\ req[p].gate = "passed"
    /\ \/ req[p].spoof = "none"
       \/ req[p].result # None /\ req[p].logged = 0

\* C14: a verification request whose capture failed or that met an
\* unexpected exception ends with a server error (HTTP 500), never with a
\* success-status verified = false / match = false response.
C14_FailuresAreServerErrors ==
    \A p \in Procs :
        (Done(p) /\ Verifying(p) /\ Failed(p)) => req[p].resp[1].code = 500

\* C15: enrollment ordering.  The gallery changes only in the copy step of an
\* enrollment whose capture exists and has passed the spoof gate; an
\* enrollment that ends with HTTP 400 (empty name, duplicate name, spoof
\* rejection) ends in a step that leaves the gallery as it was, the 400 for a
\* failed spoof check is the one a capture that failed the gate gets, and the
\* empty-name and duplicate rejections are given with no capture taken.
C15_EnrollmentOrdering ==
    [][ /\ gallery' # gallery =>
            \E p \in Procs :
                /\ req[p].ep = "register"
                /\ req[p].pc = "r_copy"
                /\ req[p].capture = "exists"
                /\ req[p].spoof = "pass"
                /\ req'[p].pc = "done"
        /\ \A p \in Procs :
            ( /\ req'[p] # req[p]
              /\ req'[p].pc = "done"
              /\ req'[p].ep = "register"
              /\ req'[p].resp[1].code = 400 ) =>
                /\ gallery' = gallery
                /\ galleryExists' = galleryExists
                /\ req'[p].resp[1].detail
                     \in {"Name cannot be empty", "Face already registered"}
                     => (req'[p].capture = "none" /\ req'[p].spoof = "none")
                /\ req'[p].resp[1].detail = "Face capture failed spoof detection"
                     <=> req'[p].spoof = "fail"
      ]_vars

\* C15's case: an enrollment rejected by the spoof gate after its capture was
\* taken, with no reference file for its name in the gallery, next to an
\* enrollment that passed the gate and was committed.
C15_Witness ==
    \E p, q \in Procs :
        /\ Done(p)
        /\ req[p].ep = "register"
        /\ req[p].spoof = "fail"
        /\ req[p].capture = "exists"
        /\ req[p].resp[1] = HttpError(400, "Face capture failed spoof detection")
        /\ ~PathExists(RegisteredPath(req[p].clean))
        /\ Done(q)
        /\ req[q].ep = "register"
        /\ req[q].spoof = "pass"
        /\ req[q].resp[1].code = 200
        /\ PathExists(RegisteredPath(req[q].clean))

\* C16: verify_face is read-only.  A step in which verify_face runs (match,
\* no match or per-entry error) leaves the gallery directory, its entries and
\* their contents as they were and appends nothing to the audit log; the
\* audit log grows only by one record, in the logging step of an endpoint
\* that holds the result verify_face returned.
C16_EngineReadOnly ==
    [][ /\ \A p \in Procs :
            (req[p].pc \in {"v_scan", "f_scan"} /\ req'[p].pc # req[p].pc) =>
                /\ req'[p].result # None
                /\ gallery' = gallery
                /\ galleryExists' = galleryExists
                /\ auditLog' = auditLog
        /\ auditLog' # auditLog =>
            /\ Len(auditLog') = Len(auditLog) + 1
            /\ SubSeq(auditLog', 1, Len(auditLog)) = auditLog
            /\ \E p \in Procs :
                /\ req[p].pc \in {"v_log", "f_log"}
                /\ req[p].result # None
                /\ req'[p].pc = "done"
      ]_vars

\* C16's case: verify_face has returned a match from a scan in which the
\* oracle also raised, the gallery holds the entries it was given, and the
\* audit log has no record yet.
C16_Witness ==
    \E p \in Procs :
        /\ req[p].pc \in {"v_log", "f_log"}
        /\ req[p].scan # None
        /\ req[p].result[1].verified
        /\ Failing(req[p].scan[1]) # {}
        /\ req[p].scan[1].entries = [i \in 1..Len(gallery) |-> gallery[i].name]
        /\ auditLog = <<>>

\* The name of entry f ends, whatever the case, in .jpg, .jpeg or .png.
HasImageExtension(f) ==
    f.ext \in {".jpg", ".jpeg", ".png", ".JPG", ".JPEG", ".PNG"}

\* The positions of listing g whose names have an image extension.
ImagePositions(g) == { i \in 1..Len(g) : HasImageExtension(g[i].name) }

\* C17: enumeration skips non-image entries.  A step in which verify_face
\* runs asks the oracle about entries with an image extension only and
\* returns as matched_with only such an entry; a step in which /api/registered
\* responds lists exactly the gallery's entries with an image extension, with
\* a count that is the length of the list.
C17_EnumerationSkipsNonImages ==
    [][ \A p \in Procs :
          /\ (req[p].scan = None /\ req'[p].scan # None) =>
                LET s == req'[p].scan[1]
                    res == req'[p].result[1]
                IN  /\ \A i \in s.calls : HasImageExtension(s.entries[i])
                    /\ res.verified =>
                         \E i \in ImagePositions(gallery) :
                             res.matched_with = Some(gallery[i].name)
          /\ (req'[p] # req[p] /\ req'[p].ep = "list" /\ req'[p].pc = "done") =>
                LET b == req'[p].resp[1].body
                IN  /\ req'[p].resp[1].code = 200
                    /\ { b.registered_faces[i].filename :
                           i \in 1..Len(b.registered_faces) }
                         = { gallery[i].name : i \in ImagePositions(gallery) }
                    /\ Len(b.registered_faces)
                         = Cardinality(ImagePositions(gallery))
                    /\ b.count = Some(Len(b.registered_faces))
      ]_vars

\* C18: whenever /verify-face responds with match = true, the confidence it
\* reports is at least 60.0 and at most 100.0, and the distance of the match
\* it reports on is at least 0 and below the threshold 0.4.
C18_MatchConfidenceRange ==
    \A p \in Procs :
        ( /\ Done(p)
          /\ req[p].ep = "verify_face"
          /\ req[p].resp[1].code = 200
          /\ req[p].resp[1].body.match ) =>
            /\ req[p].resp[1].body.confidence >= 600
            /\ req[p].resp[1].body.confidence <= 1000
            /\ req[p].result # None
            /\ req[p].result[1].score # None
            /\ req[p].result[1].score[1] >= 0
            /\ req[p].result[1].score[1] < 4000

\* C18's case: a match at distance 0.3999, just below the threshold, answered
\* with match = true and confidence 60.0.
C18_Witness ==
    \E p \in Procs :
        /\ Done(p)
        /\ req[p].ep = "verify_face"
        /\ req[p].result # None
        /\ req[p].result[1].score = Some(3999)
        /\ req[p].resp[1] = Ok([match |-> TRUE, confidence |-> 600])

\* C19: the gallery only grows.  In every step, under every interleaving, no
\* entry of the gallery is removed; the gallery changes only in a step in
\* which an enrollment responds with success; every step in which an
\* enrollment responds with success adds exactly one entry, named
\* <normalized name>.jpg; and a step of a verification or listing request
\* leaves the gallery as it was.
C19_GalleryOnlyGrows ==
    [][ /\ Names(gallery) \subseteq Names(gallery')
        /\ Len(gallery') >= Len(gallery)
        /\ galleryExists' = galleryExists
        /\ gallery' # gallery =>
            \E p \in Procs :
                /\ req[p].ep = "register"
                /\ req'[p].pc = "done"
                /\ req'[p].resp[1].code = 200
        /\ \A p \in Procs :
            ( /\ req'[p] # req[p]
              /\ req'[p].ep = "register"
              /\ req'[p].pc = "done"
              /\ req'[p].resp[1].code = 200 ) =>
                /\ Len(gallery') = Len(gallery) + 1
                /\ Names(gallery')
                     = Names(gallery)
                         \cup { [stem |-> req'[p].clean, ext |-> ".jpg"] }
        /\ \A p \in Procs :
            (req'[p] # req[p] /\ req'[p].ep \in {"verify", "verify_face", "list"})
                => gallery' = gallery
      ]_vars

====
